---- MODULE Spec2Model ----
(***************************************************************************)
(* WodBot scraper (src/scraper.py): the retrying page fetch, the date      *)
(* normaliser, the heuristic extraction over the parsed document and the   *)
(* pipeline entry point, as state machines.                                *)
(*                                                                         *)
(* Python values: a str is [t |-> "str", v |-> <<characters>>], one        *)
(* one-character string per character (two code points outside ASCII are  *)
(* written by their names, "U+0662" and "U+00B2"); None is [t |-> "None"]. *)
(***************************************************************************)
EXTENDS Integers, Sequences, FiniteSets, TLC

VARIABLES
  max_retries,  \* fetch_wod_html: argument
  delay,        \* fetch_wod_html: argument
  attempt,      \* fetch_wod_html: loop variable of `for attempt in range(max_retries)`
  fpc,          \* fetch_wod_html: "idle", "loop", "returned" or "raised"
  gets,         \* number of requests.get calls issued so far
  sleeps,       \* the arguments of the time.sleep calls so far, in order
  outcomes,     \* what each attempt so far met: "timeout", "error", "short", "ok"
  fresult,      \* the response body returned, or None
  raised,       \* the count in the raised "Failed after N retries", or None
  token,        \* format_date: argument
  dpc,          \* format_date: "call" or "done"
  dresult,      \* format_date: returned string, or None
  clock,        \* the day datetime.now() falls on (an index into the calendar)
  html,         \* parse_wod: argument (the markup, as the tree the parser builds)
  ppc,          \* parse_wod caller: "idle", "call" or "raised"
  calls,        \* the records returned by the successive parse_wod calls on html
  traces,       \* per call: its day, whether the try block raised, the
                \* workout_content located and the walks made
  gpc,          \* get_todays_wod: "idle", "fetch", "parse", "returned" or "raised"
  gresult       \* get_todays_wod: the record returned, or None

vars == <<max_retries, delay, attempt, fpc, gets, sleeps, outcomes, fresult, raised,
          token, dpc, dresult, clock, html, ppc, calls, traces, gpc, gresult>>

fetchVars == <<max_retries, delay, attempt, fpc, gets, sleeps, outcomes, fresult, raised>>
dateVars  == <<token, dpc, dresult>>
parseVars == <<html, ppc, calls, traces>>
pipeVars  == <<gpc, gresult>>

----------------------------------------------------------------------------
(* Python values *)

None == [t |-> "None"]

Str(s) == [t |-> "str", v |-> s]

Bool(b) == [t |-> "bool", v |-> b]

IntVal(n) == [t |-> "int", v |-> n]

IsStr(x) == DOMAIN x = {"t", "v"} /\ x.t = "str"

IsBool(x) == DOMAIN x = {"t", "v"} /\ x.t = "bool"

----------------------------------------------------------------------------
(* str operations *)

UpperChars == <<"A","B","C","D","E","F","G","H","I","J","K","L","M","N","O","P","Q","R","S","T","U","V","W","X","Y","Z">>

LowerChars == <<"a","b","c","d","e","f","g","h","i","j","k","l","m","n","o","p","q","r","s","t","u","v","w","x","y","z">>

\* the lower-case letter of each upper-case letter
LowerOf == [c \in {UpperChars[i] : i \in 1..26} |->
              LowerChars[CHOOSE i \in 1..26 : UpperChars[i] = c]]

LowerChar(c) == IF c \in DOMAIN LowerOf THEN LowerOf[c] ELSE c

\* str.lower()
Lower(s) == <<>> \o [i \in 1..Len(s) |-> LowerChar(s[i])]

\* `p in s`
Contains(s, p) ==
  \/ p = <<>>
  \/ \E i \in 0..(Len(s) - Len(p)) : s[i + 1] = p[1] /\ SubSeq(s, i + 1, i + Len(p)) = p

\* the characters str.isspace() accepts, which str.strip() removes: the ASCII
\* ones (space, \t, \n, \r, form feed, vertical tab U+000B and the separators
\* U+001C..U+001F) and the Unicode spaces; a character with no escape of its
\* own is written as its code point
WhiteSpace ==
  { " ", "\t", "\n", "\r", "\f", "U+000B", "U+001C", "U+001D", "U+001E", "U+001F",
    "U+0085", "U+00A0", "U+1680", "U+2000", "U+2001", "U+2002", "U+2003", "U+2004",
    "U+2005", "U+2006", "U+2007", "U+2008", "U+2009", "U+200A", "U+2028", "U+2029",
    "U+202F", "U+205F", "U+3000" }

\* str.strip()
Strip(s) ==
  IF \A i \in 1..Len(s) : s[i] \in WhiteSpace THEN <<>>
  ELSE LET lo == CHOOSE i \in 1..Len(s) :
                   s[i] \notin WhiteSpace /\ \A j \in 1..(i - 1) : s[j] \in WhiteSpace
           hi == CHOOSE i \in 1..Len(s) :
                   s[i] \notin WhiteSpace /\ \A j \in (i + 1)..Len(s) : s[j] \in WhiteSpace
       IN SubSeq(s, lo, hi)

RECURSIVE Join(_, _)
\* sep.join(parts)
Join(sep, parts) ==
  IF parts = <<>> THEN <<>>
  ELSE IF Len(parts) = 1 THEN parts[1]
  ELSE parts[1] \o sep \o Join(sep, Tail(parts))

AsciiDigits == <<"0","1","2","3","4","5","6","7","8","9">>

\* the characters str.isdigit() accepts: the ASCII digits, the other decimal
\* digits (ARABIC-INDIC DIGIT TWO) and digits that are no decimals (SUPERSCRIPT TWO)
DigitChars == {AsciiDigits[i] : i \in 1..10} \cup {"U+0662", "U+00B2"}

\* str.isdigit(): non-empty and every character a digit
IsDigitStr(s) == Len(s) > 0 /\ \A i \in 1..Len(s) : s[i] \in DigitChars

\* the characters int() reads as a decimal digit
DecimalChars == DigitChars \ {"U+00B2"}

DecimalValue(c) ==
  IF c = "U+0662" THEN 2
  ELSE (CHOOSE i \in 1..10 : AsciiDigits[i] = c) - 1

RECURSIVE IntOf(_)
\* int(s) of a string of decimal digits
IntOf(s) ==
  IF s = <<>> THEN 0
  ELSE 10 * IntOf(SubSeq(s, 1, Len(s) - 1)) + DecimalValue(s[Len(s)])

\* int(s) raises ValueError
IntRaises(s) == s = <<>> \/ \E i \in 1..Len(s) : s[i] \notin DecimalChars

RECURSIVE Decimal(_)
\* the decimal digits of n >= 0
Decimal(n) ==
  IF n < 10 THEN <<AsciiDigits[n + 1]>>
  ELSE Decimal(n \div 10) \o <<AsciiDigits[(n % 10) + 1]>>

RECURSIVE ZeroPad(_, _)
\* f"{n:0{w}d}"
ZeroPad(s, w) == IF Len(s) >= w THEN s ELSE ZeroPad(<<"0">> \o s, w)

FormatInt(n, w) == ZeroPad(Decimal(n), w)

----------------------------------------------------------------------------
(* the clock: datetime.now().strftime("%Y-%m-%d") *)

MaxDays == 2

\* the calendar days the clock runs through; midnight passes between them
ClockDate(i) ==
  IF i <= 2 THEN [year |-> 2026, month |-> 10, day |-> 29 + i]
  ELSE [year |-> 2026, month |-> 11, day |-> i - 2]

Strftime(d) ==
  FormatInt(d.year, 4) \o <<"-">> \o FormatInt(d.month, 2) \o <<"-">> \o FormatInt(d.day, 2)

Today(c) == Strftime(ClockDate(c))

\* midnight passes
Tick ==
  /\ clock < MaxDays
  /\ clock' = clock + 1

----------------------------------------------------------------------------
(* fetch_wod_html *)

MaxRetries == 3

MaxDelay == 2

MinBodyLen == 1000

DefaultMaxRetries == 3

DefaultDelay == 1

\* the lengths of the response bodies the server answers with
BodyLens == {0, 999, 1000, 1001, 5000}

\* a response body: its length in characters and the document it parses to
Body(n, d) == [len |-> n, doc |-> d]

BackoffConstant(d, a) == d

\* time.sleep(delay * (attempt + 1))
Backoff(d, a) == d * (a + 1)

SleepAfterEveryFailure == sleeps' = Append(sleeps, Backoff(delay, attempt))

\* `if attempt < max_retries - 1: time.sleep(...)`
SleepIfAttemptsRemain ==
  sleeps' = IF attempt < max_retries - 1
            THEN Append(sleeps, Backoff(delay, attempt))
            ELSE sleeps

\* one iteration of the loop in which requests.get raises Timeout
FetchTimeout ==
  /\ fpc = "loop" /\ attempt < max_retries
  /\ gets' = gets + 1
  /\ outcomes' = Append(outcomes, "timeout")
  /\ SleepIfAttemptsRemain
  /\ attempt' = attempt + 1
  /\ UNCHANGED <<max_retries, delay, fpc, fresult, raised>>

\* one iteration in which requests.get or raise_for_status raises another
\* RequestException
FetchRequestError ==
  /\ fpc = "loop" /\ attempt < max_retries
  /\ gets' = gets + 1
  /\ outcomes' = Append(outcomes, "error")
  /\ SleepIfAttemptsRemain
  /\ attempt' = attempt + 1
  /\ UNCHANGED <<max_retries, delay, fpc, fresult, raised>>

\* one iteration in which the response arrives: a short body is retried while
\* attempts remain, any other body (and a short one on the last attempt) is returned
FetchResponse(body) ==
  /\ fpc = "loop" /\ attempt < max_retries
  /\ gets' = gets + 1
  /\ outcomes' = Append(outcomes, IF body.len < MinBodyLen THEN "short" ELSE "ok")
  /\ IF body.len < MinBodyLen /\ attempt < max_retries - 1
     THEN /\ sleeps' = Append(sleeps, Backoff(delay, attempt))
          /\ attempt' = attempt + 1
          /\ UNCHANGED <<fpc, fresult>>
     ELSE /\ fpc' = "returned"
          /\ fresult' = body
          /\ UNCHANGED <<sleeps, attempt>>
  /\ UNCHANGED <<max_retries, delay, raised>>

\* the loop ran out: raise RequestException(f"Failed after {max_retries} retries")
FetchExhausted ==
  /\ fpc = "loop" /\ attempt >= max_retries
  /\ fpc' = "raised"
  /\ raised' = IntVal(max_retries)
  /\ UNCHANGED <<max_retries, delay, attempt, gets, sleeps, outcomes, fresult>>

----------------------------------------------------------------------------
(* format_date *)

IsLeapNoCentury(y) == y % 4 = 0 /\ y % 100 # 0

\* the leap years of datetime's constructor
IsLeap(y) == y % 4 = 0 /\ (y % 100 # 0 \/ y % 400 = 0)

DaysInMonth(y, m) ==
  IF m = 2 THEN (IF IsLeap(y) THEN 29 ELSE 28)
  ELSE IF m \in {4, 6, 9, 11} THEN 30
  ELSE 31

\* datetime(year, month, day) raises ValueError
DatetimeRaises(y, m, d) ==
  ~ (1 <= y /\ y <= 9999 /\ 1 <= m /\ m <= 12 /\ 1 <= d /\ d <= DaysInMonth(y, m))

\* format_date(date_str), with today = datetime.now().strftime("%Y-%m-%d")
format_date(date_str, today) ==
  IF Len(date_str) = 6 /\ IsDigitStr(date_str)
  THEN IF IntRaises(date_str)
       THEN today      \* int() raises ValueError: the outer except
       ELSE LET year_2digit == IntOf(SubSeq(date_str, 1, 2))
                month == IntOf(SubSeq(date_str, 3, 4))
                day == IntOf(SubSeq(date_str, 5, 6))
                year == IF year_2digit < 100 THEN 2000 + year_2digit ELSE year_2digit
            IN IF ~ (1 <= month /\ month <= 12 /\ 1 <= day /\ day <= 31)
               THEN today
               ELSE IF DatetimeRaises(year, month, day)
               THEN today
               ELSE FormatInt(year, 4) \o <<"-">> \o FormatInt(month, 2)
                      \o <<"-">> \o FormatInt(day, 2)
  ELSE today

\* the well-formed tokens tried: every month and day field, years in and out of
\* leap years, 2000 included
DigitTokens ==
  { <<AsciiDigits[a + 1], AsciiDigits[b + 1], AsciiDigits[c + 1],
      AsciiDigits[d + 1], AsciiDigits[e + 1], AsciiDigits[f + 1]>> :
      a \in {0, 2, 9}, b \in {0, 4, 5, 9}, c \in {0, 1, 2}, d \in 0..9,
      e \in 0..3, f \in 0..9 }

\* tokens of other shapes
OddTokens ==
  { <<>>, <<"i","n","v","a","l","i","d">>, <<"U","n","k","n","o","w","n"," ","D","a","t","e">>, <<"E","r","r","o","r">>, <<"2","5","1","1","3">>, <<"2","5","1","1","3","0","0">>,
    <<"2","5","-","1","3","0">>, <<" ","5","1","1","3","0">>, <<"2","5","1","1","3","a">>,
    <<"U+0662", "5", "1", "1", "3", "0">>,
    <<"2", "5", "U+0662", "U+0662", "U+0662", "U+0662">>,
    <<"2", "4", "0", "U+0662", "U+0662", "9">>,
    <<"U+00B2", "5", "1", "1", "3", "0">>,
    <<"2", "5", "1", "1", "3", "U+00B2">> }

Tokens == DigitTokens \cup OddTokens

\* a call format_date(token)
FormatDate ==
  /\ dpc = "call"
  /\ dresult' = Str(format_date(token, Today(clock)))
  /\ dpc' = "done"
  /\ UNCHANGED token

----------------------------------------------------------------------------
(* the parsed document: BeautifulSoup(html, 'html.parser')                 *)
(*                                                                         *)
(* A node is a text node, a comment or a tag with its children; a node is  *)
(* named by its path, the child indices from the root down.                *)

Text(s) == [k |-> "text", s |-> s]

Comment(s) == [k |-> "comment", s |-> s]

Tag(name, kids) == [k |-> "tag", name |-> name, kids |-> kids]

\* a chain of nested <b> tags, each the only child of the one before, deeper
\* than the interpreter's recursion limit, around kids. The first tag of the
\* chain is a tag of its own, a sibling of what stands beside the chain; the
\* tags below it are one node marked deep, which is the last tag of the chain
\* to its kids: their parent, without a sibling. No find_all of parse_wod asks
\* for <b>, so the tags in between are met by .string alone.
DeepTag(kids) ==
  Tag("b", << [k |-> "tag", name |-> "b", kids |-> kids, deep |-> TRUE] >>)

IsDeep(node) == "deep" \in DOMAIN node

\* markup html.parser gives up on (an unknown marked section such as <![x[ y ]]>):
\* BeautifulSoup raises ParserRejectedMarkup
RejectedMarkup == [k |-> "rejected"]

\* the BeautifulSoup object of a document with these top-level nodes
Soup(kids) == Tag("[document]", kids)

RECURSIVE NodeAt(_, _)
NodeAt(node, path) ==
  IF path = <<>> THEN node ELSE NodeAt(node.kids[Head(path)], Tail(path))

RECURSIVE DescendantsFrom(_, _, _)
\* the paths of the descendants of the tag at `path`, from child i on, in
\* document order
DescendantsFrom(root, path, i) ==
  LET node == NodeAt(root, path)
  IN IF i > Len(node.kids) THEN <<>>
     ELSE LET child == path \o <<i>>
          IN <<child>>
               \o (IF node.kids[i].k = "tag" THEN DescendantsFrom(root, child, 1) ELSE <<>>)
               \o DescendantsFrom(root, path, i + 1)

\* element.descendants
Descendants(root, path) ==
  IF NodeAt(root, path).k = "tag" THEN DescendantsFrom(root, path, 1) ELSE <<>>

\* element.parent, for a node below the root
Parent(path) == SubSeq(path, 1, Len(path) - 1)

\* element.next_sibling: <<>> for None, else <<the sibling's path>>
NextSibling(root, path) ==
  IF path = <<>> THEN <<>>
  ELSE LET up == NodeAt(root, Parent(path))
           i == path[Len(path)]
       IN IF i < Len(up.kids) THEN << Parent(path) \o <<i + 1>> >> ELSE <<>>

\* bool(element): a tag is true, a string is true when it is not empty
Truthy(node) == node.k = "tag" \/ Len(node.s) > 0

RECURSIVE TagString(_)
\* tag.string: <<>> for None, else <<the string>>: the only child when it is
\* a string (a comment is one), the only child's .string when it is a tag
TagString(node) ==
  IF Len(node.kids) # 1 THEN <<>>
  ELSE IF node.kids[1].k = "tag" THEN TagString(node.kids[1])
  ELSE <<node.kids[1].s>>

RECURSIVE TagStringRaises(_)
\* tag.string recurses through only children: past the recursion limit it
\* raises RecursionError
TagStringRaises(node) ==
  IF IsDeep(node) THEN TRUE
  ELSE IF Len(node.kids) # 1 THEN FALSE
  ELSE IF node.kids[1].k = "tag" THEN TagStringRaises(node.kids[1])
  ELSE FALSE

RECURSIVE Pieces(_, _, _, _)
\* the strings get_text joins, from the i-th of `paths` on: the text nodes
\* (comments are not of the default string types), each stripped and the
\* empty ones dropped when strip is set
Pieces(root, paths, i, strip) ==
  IF i > Len(paths) THEN <<>>
  ELSE LET node == NodeAt(root, paths[i])
           s == IF node.k = "text" THEN (IF strip THEN Strip(node.s) ELSE node.s) ELSE <<>>
       IN (IF node.k = "text" /\ Len(s) > 0 THEN <<s>> ELSE <<>>)
            \o Pieces(root, paths, i + 1, strip)

\* element.get_text(separator=sep, strip=strip), of a tag or of a string
GetText(root, path, sep, strip) ==
  LET node == NodeAt(root, path)
  IN IF node.k = "tag"
     THEN Join(sep, Pieces(root, Descendants(root, path), 1, strip))
     ELSE Join(sep, Pieces(root, <<path>>, 1, strip))

\* soup.find_all(names): the tags of these names, in document order
FindAllTags(root, names) ==
  SelectSeq(Descendants(root, <<>>),
            LAMBDA p : NodeAt(root, p).k = "tag" /\ NodeAt(root, p).name \in names)

----------------------------------------------------------------------------
(* parse_wod *)

CROSSFIT_URL == <<"h","t","t","p","s",":","/","/","w","w","w",".","c","r","o","s","s","f","i","t",".","c","o","m","/","w","o","d">>

WalkBound == 10

ShortTextLen == 50

ScaledMinLen == 20

workout_patterns ==
  << <<"F","o","r"," ","t","i","m","e",":">>, <<"A","M","R","A","P">>, <<"R","e","s","t"," ","D","a","y">>, <<"R","e","c","o","v","e","r","y"," ","D","a","y">>, <<"A","c","t","i","v","e"," ","R","e","c","o","v","e","r","y">>,
     <<"r","o","u","n","d","s"," ","f","o","r"," ","t","i","m","e">>, <<"r","o","u","n","d","s"," ","o","f",":">>, <<"E","M","O","M">>, <<"T","a","b","a","t","a">>,
     <<"E","v","e","r","y"," ","m","i","n","u","t","e"," ","o","n"," ","t","h","e"," ","m","i","n","u","t","e">>, <<"A","s"," ","m","a","n","y"," ","r","o","u","n","d","s"," ","a","s"," ","p","o","s","s","i","b","l","e">>,
     <<"A","s"," ","m","a","n","y"," ","r","e","p","s"," ","a","s"," ","p","o","s","s","i","b","l","e">>, <<"D","e","a","t","h"," ","b","y">>, <<"F","o","r"," ","l","o","a","d",":">>, <<"H","e","a","v","y"," ","s","i","n","g","l","e">>,
     <<"W","o","r","k"," ","u","p"," ","t","o">>, <<"F","i","n","d"," ","y","o","u","r">> >>

rest_patterns ==
  << <<"r","e","s","t"," ","d","a","y">>, <<"n","o"," ","w","o","r","k","o","u","t">>, <<"r","e","c","o","v","e","r","y"," ","d","a","y">>, <<"a","c","t","i","v","e"," ","r","e","c","o","v","e","r","y">>,
     <<"t","a","k","e"," ","a"," ","r","e","s","t">>, <<"d","a","y"," ","o","f","f">>, <<"r","e","c","o","v","e","r","y">>, <<"m","o","b","i","l","i","t","y"," ","d","a","y">> >>

rest_words == << <<"r","e","s","t">>, <<"r","e","c","o","v","e","r","y">>, <<"o","f","f">> >>

scaled_patterns ==
  << <<"s","c","a","l","e","d">>, <<"b","e","g","i","n","n","e","r">>, <<"i","n","t","e","r","m","e","d","i","a","t","e">>, <<"m","o","d","i","f","i","e","d">>, <<"s","c","a","l","i","n","g">>,
     <<"s","u","b","s","t","i","t","u","t","e">> >>

workout_words ==
  << <<"r","o","u","n","d","s">>, <<"r","e","p","s">>, <<"t","i","m","e">>, <<"w","e","i","g","h","t">>, <<"d","i","s","t","a","n","c","e">>, <<"s","u","b","s","t","i","t","u","t","e">>,
     <<"m","o","d","i","f","y">> >>

\* any(pattern.lower() in text.lower() for pattern in patterns)
AnyLowerIn(patterns, text) ==
  LET low == Lower(text)
  IN \E i \in 1..Len(patterns) : Contains(low, Lower(patterns[i]))

\* any(pattern in text.lower() for pattern in patterns)
AnyIn(patterns, text) ==
  LET low == Lower(text)
  IN \E i \in 1..Len(patterns) : Contains(low, patterns[i])

\* lambda text: text and len(text) == 6 and text.isdigit()
IsDateString(s) == Len(s) > 0 /\ Len(s) = 6 /\ IsDigitStr(s)

\* soup.find_all(['h1', 'h2'], string=...): the headings whose .string is a date
date_elements(root) ==
  SelectSeq(FindAllTags(root, {"h1", "h2"}),
            LAMBDA p : LET s == TagString(NodeAt(root, p))
                       IN s # <<>> /\ IsDateString(s[1]))

\* the find_all of line 51 raises: some heading's .string does
date_elements_raises(root) ==
  LET hs == FindAllTags(root, {"h1", "h2"})
  IN \E i \in 1..Len(hs) : TagStringRaises(NodeAt(root, hs[i]))

date_str_of(root) ==
  IF date_elements(root) # <<>>
  THEN GetText(root, date_elements(root)[1], <<>>, TRUE)
  ELSE <<"U","n","k","n","o","w","n"," ","D","a","t","e">>

\* soup.find_all(string=...): the strings (text nodes and comments) that hold a
\* workout pattern, in document order
workout_sections(root) ==
  SelectSeq(Descendants(root, <<>>),
            LAMBDA p : LET n == NodeAt(root, p)
                       IN n.k # "tag" /\ Len(n.s) > 0 /\ AnyLowerIn(workout_patterns, n.s))

\* the fuller of get_text(separator='\n', strip=True) and get_text(strip=True)
FullerText(root, path) ==
  LET text == GetText(root, path, <<>>, TRUE)
      full_text == GetText(root, path, <<"\n">>, TRUE)
  IN IF Len(full_text) > Len(text) THEN full_text ELSE text

RECURSIVE WalkLoop(_, _, _, _)
\* `while current and len(content_parts) < 10`, from current (<<>> for None):
\* the content_parts it ends with and the nodes it examined
WalkLoop(root, current, content_parts, examined) ==
  IF current # <<>> /\ Truthy(NodeAt(root, current[1])) /\ Len(content_parts) < WalkBound
  THEN LET text == GetText(root, current[1], <<>>, TRUE)
       IN IF Len(text) > 0 /\ AnyLowerIn(workout_patterns, text)
          THEN \* append and break
               [content_parts |-> Append(content_parts, FullerText(root, current[1])),
                examined |-> Append(examined, current[1])]
          ELSE WalkLoop(root, NextSibling(root, current[1]), content_parts,
                        Append(examined, current[1]))
  ELSE [content_parts |-> content_parts, examined |-> examined]

\* the walk for one matched string: from its parent through the following siblings
Walk(root, section) == WalkLoop(root, <<Parent(section)>>, <<>>, <<>>)

RECURSIVE AnchoredFrom(_, _, _, _)
\* `for section in workout_sections`, from the i-th on: the workout_content it
\* ends with and the walks made
AnchoredFrom(root, sections, i, done) ==
  IF i > Len(sections) THEN [workout_content |-> <<>>, walks |-> done]
  ELSE LET w == Walk(root, sections[i])
       IN IF w.content_parts # <<>>
          THEN [workout_content |-> Join(<<"\n">>, w.content_parts),
                walks |-> Append(done, w)]
          ELSE AnchoredFrom(root, sections, i + 1, Append(done, w))

\* the keyword-anchored walk (lines 68-95)
Anchored(root) == AnchoredFrom(root, workout_sections(root), 1, <<>>)

\* the fallback scan (lines 98-106): the first p/div/section/article whose text
\* holds a pattern
Fallback(root) ==
  LET hits == SelectSeq(FindAllTags(root, {"p", "div", "section", "article"}),
                        LAMBDA p : AnyLowerIn(workout_patterns, GetText(root, p, <<>>, TRUE)))
  IN IF hits = <<>> THEN <<>> ELSE FullerText(root, hits[1])

\* workout_content after both strategies, given the outcome of the first
workout_content_after(root, anchored) ==
  IF anchored.workout_content # <<>> THEN anchored.workout_content ELSE Fallback(root)

\* lines 108-117
rest_day_of(workout_content) ==
  LET first == IF workout_content # <<>> THEN AnyIn(rest_patterns, workout_content) ELSE FALSE
  IN IF ~ first /\ workout_content # <<>> /\ Len(Strip(workout_content)) < ShortTextLen
     THEN AnyIn(rest_words, workout_content)
     ELSE first

\* the test of lines 126-129 on one element's text
IsScaledText(text) ==
  /\ AnyLowerIn(scaled_patterns, text)
  /\ AnyIn(workout_words, text)
  /\ Len(text) > ScaledMinLen

RECURSIVE ScaledFrom(_, _, _)
\* `scaled_content += f"\n{text}"` over the elements from the i-th on
ScaledFrom(root, elements, i) ==
  IF i > Len(elements) THEN <<>>
  ELSE LET text == GetText(root, elements[i], <<>>, TRUE)
       IN (IF IsScaledText(text) THEN <<"\n">> \o text ELSE <<>>)
            \o ScaledFrom(root, elements, i + 1)

\* lines 119-130
scaled_content_of(root) ==
  ScaledFrom(root, FindAllTags(root, {"p", "div", "section", "li"}), 1)

scaled_options_empty_string(scaled_content) == Str(Strip(scaled_content))

\* `scaled_content.strip() if scaled_content else None`
scaled_options_of(scaled_content) ==
  IF scaled_content # <<>> THEN Str(Strip(scaled_content)) ELSE None

\* `workout_content.strip() if workout_content else "Workout details not found"`
workout_of(workout_content) ==
  IF workout_content # <<>> THEN Str(Strip(workout_content))
  ELSE Str(<<"W","o","r","k","o","u","t"," ","d","e","t","a","i","l","s"," ","n","o","t"," ","f","o","u","n","d">>)

\* the record of lines 133-140
parsed_wod(date_str, workout_content, scaled_content, today) ==
  [ date |-> Str(date_str),
    formatted_date |-> Str(format_date(date_str, today)),
    is_rest_day |-> Bool(rest_day_of(workout_content)),
    workout |-> workout_of(workout_content),
    scaled_options |-> scaled_options_of(scaled_content),
    raw_url |-> Str(CROSSFIT_URL) ]

error_wod_without_scaled(e, today) ==
  [ date |-> Str(<<"E","r","r","o","r">>),
    formatted_date |-> Str(today),
    is_rest_day |-> Bool(FALSE),
    workout |-> Str(<<"E","r","r","o","r"," ","p","a","r","s","i","n","g"," ","w","o","r","k","o","u","t",":"," ">> \o e),
    raw_url |-> Str(CROSSFIT_URL) ]

\* the record of the except branch, lines 147-154; e is str(e)
error_wod(e, today) ==
  [ date |-> Str(<<"E","r","r","o","r">>),
    formatted_date |-> Str(today),
    is_rest_day |-> Bool(FALSE),
    workout |-> Str(<<"E","r","r","o","r"," ","p","a","r","s","i","n","g"," ","w","o","r","k","o","u","t",":"," ">> \o e),
    scaled_options |-> None,
    raw_url |-> Str(CROSSFIT_URL) ]

----------------------------------------------------------------------------
(* the markup tried *)

MaxBlocks == 2

MaxFill == 11

P(s) == Tag("p", <<Text(s)>>)

\* the headings a page may start with: none, a date, an impossible date
Headings ==
  { <<>>,
    <<Tag("h1", <<Text(<<"2","5","1","1","3","0">>)>>)>>,
    <<Tag("h2", <<Text(<<"2","5","0","2","3","0">>)>>)>> }

\* the blocks a page is made of
Blocks ==
  { P(<<"F","o","r"," ","t","i","m","e",":"," ","2","1","-","1","5","-","9"," ","P","u","l","l","-","u","p","s",","," ","P","u","s","h","-","u","p","s",","," ","A","i","r"," ","s","q","u","a","t","s">>),
    P(<<"B","e","g","i","n","n","e","r",":"," ","1","5","-","1","2","-","9"," ","r","e","p","s",","," ","b","a","n","d","-","a","s","s","i","s","t","e","d"," ","m","o","v","e","m","e","n","t","s">>),
    P(<<"R","e","s","t"," ","D","a","y"," ","-"," ","F","o","c","u","s"," ","o","n"," ","m","o","b","i","l","i","t","y"," ","a","n","d"," ","r","e","c","o","v","e","r","y">>),
    P(<<"A","M","R","A","P"," ","2","0"," ","m","i","n","u","t","e","s",":"," ","5"," ","b","u","r","p","e","e","s",","," ","t","h","e","n"," ","2"," ","m","i","n","u","t","e","s"," ","o","f"," ","r","e","c","o","v","e","r","y"," ","w","a","l","k","i","n","g">>),
    P(<<"E","M","O","M"," ","1","0",":"," ","c","o","f","f","e","e">>) }

RECURSIVE BlockSeqs(_)
\* the sequences of at most n blocks
BlockSeqs(n) ==
  IF n = 0 THEN {<<>>}
  ELSE BlockSeqs(n - 1)
         \cup {Append(s, b) : s \in {t \in BlockSeqs(n - 1) : Len(t) = n - 1}, b \in Blocks}

Filler == P(<<"S","t","r","e","t","c","h">>)

RECURSIVE Fillers(_)
Fillers(n) == IF n = 0 THEN <<>> ELSE <<Filler>> \o Fillers(n - 1)

\* a keyword in a comment, n siblings without one, then a workout
LongWalkDoc(n) ==
  Soup(<<Tag("p", <<Comment(<<"E","M","O","M">>)>>)>> \o Fillers(n)
         \o <<P(<<"D","e","a","t","h"," ","b","y"," ","p","u","l","l","-","u","p","s">>)>>)

\* a heading nested too deep
DeepDoc ==
  Soup(<<Tag("h1", <<DeepTag(<<Text(<<"2","5","1","1","3","0">>)>>)>>),
         P(<<"F","o","r"," ","t","i","m","e",":"," ","5","0"," ","b","u","r","p","e","e","s">>)>>)

\* a paragraph with CRLF line ends
CrlfDoc ==
  Soup(<<P(<<"\r","\n"," "," ","F","o","r"," ","t","i","m","e",":"," ","r","u","n"," ","4","0","0","m","\r","\n">>)>>)

\* a list item with a form feed before and a CRLF after a scaling note
CrlfScaledDoc ==
  Soup(<<Tag("li", <<Text(<<"\f","S","c","a","l","e","d",":"," ","3"," ","r","o","u","n","d","s"," ","o","f"," ","1","0"," ","r","e","p","s","\r","\n">>)>>)>>)

\* a keyword in a comment at the bottom of a deep chain, then a paragraph
\* with a keyword
DeepCommentDoc ==
  Soup(<<DeepTag(<<Comment(<<"E","M","O","M">>)>>),
         Tag("p", <<Text(<<"x">>), Tag("i", <<Text(<<"T","a","b","a","t","a">>)>>)>>)>>)

\* two scaling notes in a section, one without a workout term
ScaledNotesDoc ==
  Soup(<<Tag("section", <<P(<<"I","n","t","e","r","m","e","d","i","a","t","e"," ","o","p","t","i","o","n",":"," ","3"," ","r","o","u","n","d","s">>),
                          P(<<"S","c","a","l","e","d",":"," ","A","s","s","i","s","t","e","d"," ","p","u","l","l","-","u","p","s",","," ","k","n","e","e"," ","p","u","s","h","-","u","p","s",","," ","a","i","r"," ","s","q","u","a","t","s">>)>>)>>)

\* pages of other shapes: a keyword only in a comment, a keyword split over two
\* strings, a comment without text in a walk, list items, text at the top level,
\* a date in a comment, a date among other text, short scaling notes
OddDocs ==
  { Soup(<<Tag("h1", <<Comment(<<"2","5","1","2","0","3">>)>>), P(<<"T","a","b","a","t","a"," ","s","q","u","a","t","s">>)>>),
    Soup(<<Tag("h1", <<Text(<<"2","5","1","2","0","3">>), Tag("b", <<Text(<<"W","O","D">>)>>)>>),
           Tag("h2", <<Tag("span", <<Text(<<"2","4","0","2","2","9">>)>>)>>)>>),
    Soup(<<P(<<"S","c","a","l","e","d"," ","r","e","p","s">>), P(<<"F","o","r"," ","l","o","a","d",":"," ","5"," ","r","e","p","s">>)>>),
    ScaledNotesDoc, Soup(<<Tag("p", <<Comment(<<" ","T","a","b","a","t","a"," ">>), Text(<<"W","a","r","m"," ","u","p">>)>>),
           Text(<<"\n">>),
           P(<<"H","e","a","v","y"," ","s","i","n","g","l","e",":"," ","b","a","c","k"," ","s","q","u","a","t">>)>>),
    Soup(<<Tag("p", <<Comment(<<" ","T","a","b","a","t","a"," ">>), Text(<<"W","a","r","m"," ","u","p">>)>>)>>),
    Soup(<<Tag("p", <<Text(<<"A","M">>), Tag("b", <<Text(<<"R","A","P"," ","1","2">>)>>), Text(<<"\n">>)>>)>>),
    Soup(<<Tag("div", <<Comment(<<"E","M","O","M">>)>>), Comment(<<" ">>), P(<<"F","i","n","d"," ","y","o","u","r"," ","m","a","x">>)>>),
    Soup(<<Tag("ul", <<Tag("li", <<Text(<<" ","S","c","a","l","i","n","g",":"," ","s","u","b","s","t","i","t","u","t","e"," ","r","i","n","g"," ","r","o","w","s"," ","f","o","r"," ","p","u","l","l","-","u","p","s"," ">>)>>),
                       Tag("li", <<Text(<<"M","o","d","i","f","i","e","d",":"," ","r","e","d","u","c","e"," ","t","h","e"," ","w","e","i","g","h","t">>)>>)>>)>>),
    Soup(<<Text(<<"W","o","r","k"," ","u","p"," ","t","o"," ","a"," ","h","e","a","v","y"," ","s","i","n","g","l","e">>), Tag("h1", <<Text(<<"2","5","1","1","3","0">>)>>)>>),
    Soup(<<P(<<"T","a","k","e"," ","a"," ","r","e","s","t">>)>>),
    Soup(<<P(<<"\n">>)>>) }

\* the pages parse_wod is tried on
Docs ==
  { Soup(h \o s) : h \in Headings, s \in BlockSeqs(MaxBlocks) }
    \cup { Soup(<<Tag("div", h \o s)>>) : h \in Headings, s \in BlockSeqs(MaxBlocks) }
    \cup { LongWalkDoc(n) : n \in 0..MaxFill }
    \cup OddDocs
    \cup { DeepDoc, DeepCommentDoc, CrlfDoc, CrlfScaledDoc, RejectedMarkup }

\* the pages the server answers with
ServedDocs ==
  { Soup(<<>>),
    Soup(<<Tag("div", <<Tag("h1", <<Text(<<"2","5","1","1","3","0">>)>>),
                        P(<<"F","o","r"," ","t","i","m","e",":"," ","2","1","-","1","5","-","9"," ","P","u","l","l","-","u","p","s",","," ","P","u","s","h","-","u","p","s",","," ","A","i","r"," ","s","q","u","a","t","s">>),
                        P(<<"B","e","g","i","n","n","e","r",":"," ","1","5","-","1","2","-","9"," ","r","e","p","s",","," ","b","a","n","d","-","a","s","s","i","s","t","e","d"," ","m","o","v","e","m","e","n","t","s">>)>>)>>),
    Soup(<<Tag("h1", <<Text(<<"2","5","1","2","0","3">>)>>),
           P(<<"R","e","s","t"," ","D","a","y"," ","-"," ","F","o","c","u","s"," ","o","n"," ","m","o","b","i","l","i","t","y"," ","a","n","d"," ","r","e","c","o","v","e","r","y">>)>>),
    DeepDoc,
    RejectedMarkup }

Bodies == { Body(n, d) : n \in BodyLens, d \in ServedDocs }

----------------------------------------------------------------------------
(* calls of parse_wod *)

MaxCalls == 2

\* what str(e) of the RecursionError of Tag.string can be. The interpreter
\* words it by where the limit is met, which goes by its version and by the
\* depth of the caller's stack: in a comparison (CPython 3.6), in the call of
\* a builtin (3.7 to 3.10), or in the call of a function (3.6, 3.11 on)
RecursionErrorTexts ==
  { <<"m","a","x","i","m","u","m"," ","r","e","c","u","r","s","i","o","n"," ","d","e","p","t","h"," ","e","x","c","e","e","d","e","d">>,
    <<"m","a","x","i","m","u","m"," ","r","e","c","u","r","s","i","o","n"," ","d","e","p","t","h"," ","e","x","c","e","e","d","e","d"," ","i","n"," ","c","o","m","p","a","r","i","s","o","n">>,
    <<"m","a","x","i","m","u","m"," ","r","e","c","u","r","s","i","o","n"," ","d","e","p","t","h"," ","e","x","c","e","e","d","e","d"," ","w","h","i","l","e"," ","c","a","l","l","i","n","g"," ","a"," ","P","y","t","h","o","n"," ","o","b","j","e","c","t">> }

\* the str(e) an exception of the try block of parse_wod(root) can carry;
\* <<>> alone where the try block raises nothing
ExceptionTexts(root) ==
  IF date_elements_raises(root) THEN RecursionErrorTexts ELSE {<<>>}

\* parse_wod(root) at this date: the record it returns (wod: that of the try
\* block, or that of the except branch when a step of the try block raises),
\* whether the try block raised, and what it located; e is the str(e) an
\* exception of this call carries
parse_wod(root, today, e) ==
  IF date_elements_raises(root)
  THEN [wod |-> error_wod(e, today),
        raised |-> TRUE, workout_content |-> <<>>, walks |-> <<>>]
  ELSE LET anchored == Anchored(root)
           workout_content == workout_content_after(root, anchored)
       IN [wod |-> parsed_wod(date_str_of(root), workout_content,
                              scaled_content_of(root), today),
           raised |-> FALSE, workout_content |-> workout_content,
           walks |-> anchored.walks]

\* parse_wod(html) where the parser builds the document: it returns a record
ParseWod ==
  /\ ppc = "call" /\ Len(calls) < MaxCalls
  /\ html # RejectedMarkup
  /\ \E e \in ExceptionTexts(html) :
       LET r == parse_wod(html, Today(clock), e)
       IN /\ calls' = Append(calls, r.wod)
          /\ traces' = Append(traces, [day |-> clock, raised |-> r.raised,
                                       workout_content |-> r.workout_content,
                                       walks |-> r.walks])
  /\ UNCHANGED <<html, ppc>>

\* parse_wod(html) where BeautifulSoup(html, 'html.parser') raises, at line 47,
\* before the try block: the exception leaves parse_wod
ParseWodRejected ==
  /\ ppc = "call" /\ Len(calls) < MaxCalls
  /\ html = RejectedMarkup
  /\ ppc' = "raised"
  /\ UNCHANGED <<html, calls, traces>>

----------------------------------------------------------------------------
(* get_todays_wod *)

\* the fallback record of lines 196-203
fallback_wod(today) ==
  [ date |-> Str(<<"E","r","r","o","r">>),
    formatted_date |-> Str(today),
    is_rest_day |-> Bool(FALSE),
    workout |-> Str(<<"U","n","a","b","l","e"," ","t","o"," ","f","e","t","c","h"," ","t","o","d","a","y","'","s"," ","W","O","D","."," ","T","r","y"," ","t","h","i","s"," ","f","a","l","l","b","a","c","k",":"," ","5"," ","r","o","u","n","d","s"," ","o","f"," ","4","0","0","m"," ","r","u","n",","," ","2","0"," ","a","i","r"," ","s","q","u","a","t","s",","," ","1","0"," ","p","u","s","h","-","u","p","s",".">>),
    scaled_options |-> Str(<<"S","c","a","l","e","d",":"," ","3"," ","r","o","u","n","d","s"," ","o","f"," ","2","0","0","m"," ","w","a","l","k",","," ","1","5"," ","a","i","r"," ","s","q","u","a","t","s",","," ","5"," ","k","n","e","e"," ","p","u","s","h","-","u","p","s",".">>),
    raw_url |-> Str(CROSSFIT_URL) ]

\* fetch_wod_html() returned: wod = parse_wod(html); return wod; an exception
\* of parse_wod is caught and the fallback returned
GetParse ==
  /\ gpc = "fetch" /\ fpc = "returned"
  /\ IF fresult.doc = RejectedMarkup
     THEN gresult' = fallback_wod(Today(clock))
     ELSE \E e \in ExceptionTexts(fresult.doc) :
            gresult' = parse_wod(fresult.doc, Today(clock), e).wod
  /\ gpc' = "returned"

\* fetch_wod_html() raised: the except branch returns the fallback
GetFallback ==
  /\ gpc = "fetch" /\ fpc = "raised"
  /\ gresult' = fallback_wod(Today(clock))
  /\ gpc' = "returned"

----------------------------------------------------------------------------
(* specifications *)

FetchIdle ==
  /\ max_retries = 0 /\ delay = 0 /\ attempt = 0 /\ fpc = "idle" /\ gets = 0
  /\ sleeps = <<>> /\ outcomes = <<>> /\ fresult = None /\ raised = None

DateIdle == token = <<>> /\ dpc = "idle" /\ dresult = None

ParseIdle == html = Soup(<<>>) /\ ppc = "idle" /\ calls = <<>> /\ traces = <<>>

PipeIdle == gpc = "idle" /\ gresult = None

\* a call fetch_wod_html(max_retries, delay)
InitFetch ==
  /\ max_retries \in 0..MaxRetries /\ delay \in 1..MaxDelay
  /\ attempt = 0 /\ fpc = "loop" /\ gets = 0
  /\ sleeps = <<>> /\ outcomes = <<>> /\ fresult = None /\ raised = None
  /\ clock = 1
  /\ DateIdle /\ ParseIdle /\ PipeIdle

NextFetch ==
  \/ FetchTimeout /\ UNCHANGED <<dateVars, clock, parseVars, pipeVars>>
  \/ FetchRequestError /\ UNCHANGED <<dateVars, clock, parseVars, pipeVars>>
  \/ (\E body \in Bodies : FetchResponse(body))
       /\ UNCHANGED <<dateVars, clock, parseVars, pipeVars>>
  \/ FetchExhausted /\ UNCHANGED <<dateVars, clock, parseVars, pipeVars>>

SpecFetch == InitFetch /\ [][NextFetch]_vars

\* the call runs on: every GET ends (timeout=10) and every sleep is finite, so
\* an iteration that can be taken is taken
SpecFetchFair == InitFetch /\ [][NextFetch]_vars /\ WF_vars(NextFetch)

\* a call format_date(token)
InitDate ==
  /\ token \in Tokens /\ dpc = "call" /\ dresult = None
  /\ clock \in 1..MaxDays
  /\ FetchIdle /\ ParseIdle /\ PipeIdle

NextDate ==
  FormatDate /\ UNCHANGED <<fetchVars, clock, parseVars, pipeVars>>

SpecDate == InitDate /\ [][NextDate]_vars

\* calls parse_wod(html) on one markup, the clock running
InitParse ==
  /\ html \in Docs /\ ppc = "call" /\ calls = <<>> /\ traces = <<>>
  /\ clock = 1
  /\ FetchIdle /\ DateIdle /\ PipeIdle

NextParse ==
  \/ ParseWod /\ UNCHANGED <<fetchVars, dateVars, clock, pipeVars>>
  \/ ParseWodRejected /\ UNCHANGED <<fetchVars, dateVars, clock, pipeVars>>
  \/ Tick /\ UNCHANGED <<fetchVars, dateVars, parseVars, pipeVars>>

SpecParse == InitParse /\ [][NextParse]_vars

\* a call get_todays_wod()
InitPipe ==
  /\ max_retries = DefaultMaxRetries /\ delay = DefaultDelay
  /\ attempt = 0 /\ fpc = "loop" /\ gets = 0
  /\ sleeps = <<>> /\ outcomes = <<>> /\ fresult = None /\ raised = None
  /\ gpc = "fetch" /\ gresult = None
  /\ clock \in 1..MaxDays
  /\ DateIdle /\ ParseIdle

NextPipe ==
  \/ FetchTimeout /\ UNCHANGED <<dateVars, clock, parseVars, pipeVars>>
  \/ FetchRequestError /\ UNCHANGED <<dateVars, clock, parseVars, pipeVars>>
  \/ (\E body \in Bodies : FetchResponse(body))
       /\ UNCHANGED <<dateVars, clock, parseVars, pipeVars>>
  \/ FetchExhausted /\ UNCHANGED <<dateVars, clock, parseVars, pipeVars>>
  \/ GetParse /\ UNCHANGED <<fetchVars, dateVars, clock, parseVars>>
  \/ GetFallback /\ UNCHANGED <<fetchVars, dateVars, clock, parseVars>>

SpecPipe == InitPipe /\ [][NextPipe]_vars

Init == InitFetch \/ InitDate \/ InitParse \/ InitPipe

Next == NextFetch \/ NextDate \/ NextParse \/ NextPipe

Spec == Init /\ [][Next]_vars

----------------------------------------------------------------------------
(* properties *)

AllTimeouts == \A i \in 1..Len(outcomes) : outcomes[i] = "timeout"

\* C1: fetch_wod_html with max_retries >= 1 returns only bodies of at least
\* 1000 characters, and raises when no attempt yields such a body.
C1_NeverReturnsShortBody ==
  max_retries >= 1 =>
    /\ fpc = "returned" => fresult.len >= MinBodyLen
    /\ (fpc \in {"returned", "raised"} /\ \A i \in 1..Len(outcomes) : outcomes[i] # "ok")
         => fpc = "raised"

\* C2: when every attempt times out, fetch_wod_html makes exactly max_retries
\* GETs, sleeps delay * k after the k-th failed attempt that is not the last
\* (strictly increasing waits), never returns, and raises reporting max_retries.
C2_TimeoutsExhaustRetries ==
  (max_retries >= 1 /\ delay > 0 /\ AllTimeouts) =>
    /\ fpc # "returned" /\ fresult = None
    /\ gets = Len(outcomes) /\ gets <= max_retries
    /\ Len(sleeps) = (IF gets < max_retries THEN gets ELSE max_retries - 1)
    /\ \A k \in 1..Len(sleeps) : sleeps[k] = delay * k
    /\ \A k \in 1..(Len(sleeps) - 1) : sleeps[k] < sleeps[k + 1]
    /\ fpc = "raised" => (gets = max_retries /\ raised = IntVal(max_retries))
    /\ fpc = "loop" => raised = None

C2_Witness ==
  /\ fpc = "raised" /\ AllTimeouts /\ max_retries = 3 /\ delay = 2
  /\ gets = 3 /\ sleeps = <<2, 4>>

\* the reference rule for tokens: six decimal digits YYMMDD naming a real day
\* of the year 2000 + YY
RefMonthDays == <<31, 28, 31, 30, 31, 30, 31, 31, 30, 31, 30, 31>>

RefNum(a, b) == 10 * DecimalValue(a) + DecimalValue(b)

RefValid(t) ==
  /\ Len(t) = 6
  /\ \A i \in 1..6 : t[i] \in DecimalChars
  /\ RefNum(t[3], t[4]) \in 1..12
  /\ RefNum(t[5], t[6]) >= 1
  /\ RefNum(t[5], t[6]) <=
       (IF RefNum(t[3], t[4]) = 2 /\ RefNum(t[1], t[2]) % 4 = 0
        THEN 29 ELSE RefMonthDays[RefNum(t[3], t[4])])

RefAscii(c) == AsciiDigits[DecimalValue(c) + 1]

RefIso(t) ==
  << "2", "0", RefAscii(t[1]), RefAscii(t[2]), "-", RefAscii(t[3]), RefAscii(t[4]),
     "-", RefAscii(t[5]), RefAscii(t[6]) >>

\* C3: format_date always returns a string: (2000+YY)-MM-DD for a token of six
\* digits naming a real day, the current date for every other token.
C3_FormatDateRule ==
  dpc = "done" =>
    /\ IsStr(dresult)
    /\ dresult.v = (IF RefValid(token) THEN RefIso(token) ELSE Today(clock))

C3_Witness ==
  /\ dpc = "done" /\ token = <<"2","4","0","2","2","9">> /\ dresult = Str(<<"2","0","2","4","-","0","2","-","2","9">>)

SevenPhrases ==
  << <<"r","e","s","t"," ","d","a","y">>, <<"n","o"," ","w","o","r","k","o","u","t">>, <<"r","e","c","o","v","e","r","y"," ","d","a","y">>, <<"a","c","t","i","v","e"," ","r","e","c","o","v","e","r","y">>,
     <<"d","a","y"," ","o","f","f">>, <<"m","o","b","i","l","i","t","y"," ","d","a","y">>, <<"t","a","k","e"," ","a"," ","r","e","s","t">> >>

RefRestDay(text) ==
  \/ AnyIn(SevenPhrases, text)
  \/ (Len(Strip(text)) < 50 /\ AnyIn(<< <<"r","e","s","t">>, <<"r","e","c","o","v","e","r","y">>, <<"o","f","f">> >>, text))

\* C4: is_rest_day is true exactly when the workout text holds one of the seven
\* phrases, or is under 50 characters and holds "rest", "recovery" or "off";
\* empty workout text is no rest day.
C4_RestDayRule ==
  \A i \in 1..Len(calls) :
    ~ traces[i].raised =>
      calls[i].is_rest_day = Bool(RefRestDay(traces[i].workout_content))

\* the texts of the elements the scaled search looks at that pass its filter
RefScaledTexts(root) ==
  LET els == FindAllTags(root, {"p", "div", "section", "li"})
      texts == [i \in 1..Len(els) |-> GetText(root, els[i], <<>>, TRUE)]
  IN SelectSeq(texts,
               LAMBDA t : /\ Len(t) > 20
                          /\ AnyLowerIn(scaled_patterns, t)
                          /\ AnyLowerIn(workout_words, t))

\* C5: every record parse_wod returns has a non-empty workout string, which is
\* the text located or "Workout details not found" when none was, and
\* scaled_options is None or a non-empty string made of the texts that pass
\* the filter, joined by newlines; it is never the empty string.
C5_ExtractedOrSentinel ==
  LET passing == RefScaledTexts(html)
  IN \A i \in 1..Len(calls) :
       /\ IsStr(calls[i].workout) /\ Len(calls[i].workout.v) > 0
       /\ calls[i].scaled_options # Str(<<>>)
       /\ calls[i].workout.v =
            (IF traces[i].workout_content = <<>> THEN <<"W","o","r","k","o","u","t"," ","d","e","t","a","i","l","s"," ","n","o","t"," ","f","o","u","n","d">>
             ELSE Strip(traces[i].workout_content))
       /\ IF passing = <<>>
          THEN calls[i].scaled_options = None
          ELSE /\ IsStr(calls[i].scaled_options)
               /\ Len(calls[i].scaled_options.v) > 0
               /\ calls[i].scaled_options.v = Join(<<"\n">>, passing)

\* C5 as amended: every record parse_wod returns has a non-empty workout
\* string: the text located, "Workout details not found" when none was, or,
\* when a step of the extraction raised, "Error parsing workout: " and the
\* message of the exception; scaled_options is None or a non-empty string
\* made of the texts that pass the filter, joined by newlines, None in the
\* record of an extraction that raised, and never the empty string.
C5_RecordComplete ==
  LET passing == RefScaledTexts(html)
      prefix == <<"E","r","r","o","r"," ","p","a","r","s","i","n","g"," ","w","o","r","k","o","u","t",":"," ">>
  IN \A i \in 1..Len(calls) :
       /\ IsStr(calls[i].workout) /\ Len(calls[i].workout.v) > 0
       /\ calls[i].scaled_options # Str(<<>>)
       /\ IF traces[i].raised
          THEN /\ Len(calls[i].workout.v) > Len(prefix)
               /\ SubSeq(calls[i].workout.v, 1, Len(prefix)) = prefix
               /\ calls[i].scaled_options = None
          ELSE /\ calls[i].workout.v =
                    (IF traces[i].workout_content = <<>> THEN <<"W","o","r","k","o","u","t"," ","d","e","t","a","i","l","s"," ","n","o","t"," ","f","o","u","n","d">>
                     ELSE Strip(traces[i].workout_content))
               /\ IF passing = <<>>
                  THEN calls[i].scaled_options = None
                  ELSE /\ IsStr(calls[i].scaled_options)
                       /\ Len(calls[i].scaled_options.v) > 0
                       /\ calls[i].scaled_options.v = Join(<<"\n">>, passing)

C5_Witness ==
  /\ Len(calls) >= 1
  /\ IsStr(calls[1].scaled_options)
  /\ calls[1].workout = Str(<<"W","o","r","k","o","u","t"," ","d","e","t","a","i","l","s"," ","n","o","t"," ","f","o","u","n","d">>)
  /\ html = ScaledNotesDoc
  /\ Len(RefScaledTexts(html)) = 2
  /\ AnyLowerIn(scaled_patterns, GetText(html, <<1, 2>>, <<>>, TRUE))
  /\ ~ AnyLowerIn(workout_words, GetText(html, <<1, 2>>, <<>>, TRUE))

\* C6: parse_wod never raises; an exception in any step, building the document
\* included, becomes the placeholder record.
C6_ParseNeverRaises ==
  /\ ppc # "raised"
  /\ \A i \in 1..Len(calls) :
       traces[i].raised =>
         /\ calls[i].is_rest_day = Bool(FALSE)
         /\ calls[i].formatted_date = Str(Today(traces[i].day))
         /\ calls[i].scaled_options = None
         /\ Len(calls[i].workout.v) > 0

\* C7: when the fetch exhausts its retries get_todays_wod ends in an error and
\* yields no record, and it ends in an error in no other case.
C7_FetchFailureSurfaced ==
  /\ (fpc = "raised" /\ gpc # "fetch") => (gpc = "raised" /\ gresult = None)
  /\ gpc = "raised" => fpc = "raised"

RecordFields ==
  {"date", "formatted_date", "is_rest_day", "workout", "scaled_options", "raw_url"}

\* C8: whatever the fetch met and whatever the markup, get_todays_wod returns a
\* record with the six fields, is_rest_day a bool, formatted_date a str and
\* scaled_options None or a str.
C8_RecordShape ==
  /\ gpc \in {"fetch", "returned"}
  /\ gpc = "returned" =>
       /\ DOMAIN gresult = RecordFields
       /\ IsBool(gresult.is_rest_day)
       /\ IsStr(gresult.formatted_date)
       /\ (gresult.scaled_options = None \/ IsStr(gresult.scaled_options))

C8_Witness ==
  LET prefix == <<"E","r","r","o","r"," ","p","a","r","s","i","n","g"," ","w","o","r","k","o","u","t",":"," ">>
  IN /\ gpc = "returned" /\ fpc = "returned" /\ fresult.doc = DeepDoc
     /\ DOMAIN gresult = RecordFields
     /\ gresult.date = Str(<<"E","r","r","o","r">>)
     /\ SubSeq(gresult.workout.v, 1, Len(prefix)) = prefix
     /\ gresult.is_rest_day = Bool(FALSE)
     /\ gresult.scaled_options = None

\* C9: two runs of parse_wod on the same markup return the same record, in
\* every field.
C9_Idempotent ==
  \A i, j \in 1..Len(calls) : calls[i] = calls[j]

\* C10: each keyword-anchored walk examines at most 10 nodes, and when it
\* finds a node whose text holds a keyword it stops there and contributes
\* that one block.
C10_WalkBounded ==
  \A i \in 1..Len(calls) :
    \A w \in 1..Len(traces[i].walks) :
      LET walk == traces[i].walks[w]
      IN /\ Len(walk.examined) <= WalkBound
         /\ Len(walk.content_parts) <= 1
         /\ \A k \in 1..Len(walk.examined) :
              AnyLowerIn(workout_patterns, GetText(html, walk.examined[k], <<>>, TRUE))
                <=> (k = Len(walk.examined) /\ Len(walk.content_parts) = 1)

FetchEnded == fpc \in {"returned", "raised"}

C11_Requests ==
  /\ gets <= max_retries /\ gets = Len(outcomes)
  /\ \A i \in 1..Len(outcomes) :
       outcomes[i] = "ok" => (i = Len(outcomes) /\ fpc = "returned")
  /\ Len(sleeps) <= gets
  /\ max_retries >= 1 => Len(sleeps) <= max_retries - 1
  /\ FetchEnded => (gets = 0 \/ Len(sleeps) = gets - 1)
  /\ max_retries = 0 => (gets = 0 /\ sleeps = <<>> /\ fpc # "returned")
  /\ (max_retries = 0 /\ FetchEnded) => (fpc = "raised" /\ raised = IntVal(0))

\* C11: for every max_retries >= 0 and every sequence of outcomes,
\* fetch_wod_html issues at most max_retries GETs, none after a response of at
\* least 1000 characters, sleeps only between two attempts (at most
\* max_retries - 1 times, never after the last attempt), and in the end
\* returns or raises; with max_retries = 0 it issues no GET and raises.
C11_BoundedFetch ==
  /\ []C11_Requests
  /\ [][FetchEnded => (gets' = gets /\ sleeps' = sleeps)]_vars
  /\ <>FetchEnded

C11_Witness ==
  /\ fpc = "returned" /\ max_retries = 3 /\ gets = 2
  /\ outcomes = <<"timeout", "ok">> /\ Len(sleeps) = 1
  /\ fresult.len >= MinBodyLen

====
